---- MODULE Spec2Model ----
(***************************************************************************)
(* A model of the flowmap effect page script (src/src/js/index.js): the    *)
(* pointer tracker (updateMouse), the frame driver (update), the viewport  *)
(* geometry (resize), the image slideshow (switchTextures, pickTexture,    *)
(* assetURL) and the parts of the ogl Flowmap the script drives.           *)
(*                                                                         *)
(* Numbers that the script computes with floating point division are       *)
(* modelled as exact rationals <<n, d>> in lowest terms with d > 0.        *)
(***************************************************************************)
EXTENDS Integers, Sequences, FiniteSets, TLC

(***************************************************************************)
(* Rational arithmetic.                                                    *)
(***************************************************************************)
\* An operator applied to the values of its arguments, each argument
\* evaluated once.
Call1(F(_), a) == CHOOSE q \in {F(x) : x \in {a}} : TRUE
Call2(F(_, _), a, b) == CHOOSE q \in {F(x, y) : x \in {a}, y \in {b}} : TRUE

Abs(n) == Call1(LAMBDA x : IF x < 0 THEN -x ELSE x, n)

RECURSIVE GCD(_, _)
GCD(a, b) == Call2(LAMBDA x, y : IF y = 0 THEN x ELSE GCD(y, x % y), a, b)

\* n/d in lowest terms, the sign carried by the numerator (d # 0).
Rat(n, d) ==
  Call2(LAMBDA x, y :
          Call2(LAMBDA g, s : <<(s * x) \div g, (s * y) \div g>>,
                GCD(Abs(x), Abs(y)), IF y < 0 THEN -1 ELSE 1),
        n, d)

Zero == <<0, 1>>
One == <<1, 1>>
RInt(n) == <<n, 1>>

RNeg(a) == Call1(LAMBDA x : <<-x[1], x[2]>>, a)

\* a + b over the least common denominator.
RAdd(a, b) ==
  Call2(LAMBDA x, y :
          Call1(LAMBDA l : Rat(x[1] * (l \div x[2]) + y[1] * (l \div y[2]), l),
                (x[2] \div GCD(x[2], y[2])) * y[2]),
        a, b)

RSub(a, b) == RAdd(a, RNeg(b))

\* a * b, cancelling across before multiplying.
RMul(a, b) ==
  Call2(LAMBDA x, y :
          IF x[1] = 0 \/ y[1] = 0 THEN Zero
          ELSE Call2(LAMBDA g1, g2 : Rat((x[1] \div g1) * (y[1] \div g2),
                                         (x[2] \div g2) * (y[2] \div g1)),
                     GCD(Abs(x[1]), y[2]), GCD(Abs(y[1]), x[2])),
        a, b)

\* a / b for b # 0.
RDiv(a, b) == RMul(a, Call1(LAMBDA y : Rat(y[2], y[1]), b))

RLess(a, b) == a[1] * b[2] < b[1] * a[2]

RMax(a, b) == IF RLess(a, b) THEN b ELSE a

(***************************************************************************)
(* Bounds of the model and constants of the program.                       *)
(***************************************************************************)
\* Frame ticks explored.
MaxTicks == 3
\* Pointer events explored.
MaxEvents == 2

\* imageSize = { w: 3000, h: 4000, ... }
ImageW == 3000
ImageH == 4000
\* The Renderer's size before the first setSize (ctxAttrs: width 300, height 150).
DefaultWidth == 300
DefaultHeight == 150

\* Math.max(10.4, ...): the floor of the elapsed time, 10.4 = 52/5.
MinDelta == <<52, 5>>
\* velocity.len ? 0.15 : 0.1
EaseIn == <<3, 20>>
EaseOut == <<1, 10>>
\* uTime = t * 0.01
TimeScale == <<1, 100>>

\* new Vec2(-1), mouse.set(-1): set(x, y = x).
Sentinel == <<RInt(-1), RInt(-1)>>
\* new Vec2(), velocity.set(0).
ZeroVec == <<Zero, Zero>>

\* Window sizes (innerWidth, innerHeight) the host reports while the page runs:
\* against the 3000 x 4000 image one is wider than the image, one is taller.
Viewports == {<<8, 6>>, <<6, 10>>}
\* Largest width or height of the sizes the geometry is derived for.
MaxDim == 4
Dims == 1 .. MaxDim
\* Pixel coordinates of the pointer events delivered.
Points == {<<0, 0>>, <<5, 5>>, <<2, 5>>}
\* A pixel that is inside the taller window only.
EdgePoints == {<<2, 9>>}
\* Milliseconds elapsed between a handler run and the one before it.
Dts == {0, 1, 20}
\* Milliseconds from the previous handler run to a frame callback.
FrameDts == {16}

\* Invocations of switchTextures (and clicks) explored.
MaxCalls == 5
\* The largest index node assetURL is called with.
MaxInode == 3
Inodes == 0 .. MaxInode
\* The fields a struct passed to assetURL may carry, and their values.
FieldValues ==
  [base |-> {"tex"}, path |-> {"tex"}, name |-> {"img"}, desc |-> {"a"},
   format |-> {"jpg", "gif"}, suffix |-> {"-q80"}]
Structs ==
  UNION {{st \in [K -> UNION {FieldValues[k] : k \in K}] :
            \A k \in K : st[k] \in FieldValues[k]} :
         K \in SUBSET DOMAIN FieldValues}

\* Pointer events explored where several arrive between two ticks.
MaxBurst == 3

\* Input events: a mouse event carries x/y, a touch event carries
\* changedTouches[0].pageX/pageY and no x.
Events ==
  {[type |-> "mousemove", x |-> p[1], y |-> p[2]] : p \in Points}
    \cup {[type |-> "touchmove", pageX |-> p[1], pageY |-> p[2]] : p \in Points}
    \cup {[type |-> "mousemove", x |-> p[1], y |-> p[2]] : p \in EdgePoints}

VARIABLES
  vw, vh,         \* { innerWidth: vw, innerHeight: vh } = win, read once
  win,            \* the window's current <<innerWidth, innerHeight>>
  imageSize,      \* <<w, h>>
  res,            \* program.uniforms.res.value: <<width, height, a1, a2>>
  rendererSize,   \* <<renderer.width, renderer.height>>
  aspect,
  mouse,          \* <<x, y>>
  velocity,       \* [x, y, needsUpdate]
  lastTime,       \* 0 stands for undefined
  lastMouse,      \* <<x, y>> in pixels
  now,            \* performance.now() of the latest handler run
  flowmap,        \* [aspect, mouse, velocity, read, write, uniform, tex]
  uTime,
  raf,            \* frame callbacks requested and not yet run
  ticks,          \* frame callbacks run
  draws,          \* renderer.render({ scene: mesh }) calls
  pointer,        \* history: the last two pointer events
  frame,          \* history: what the latest frame tick did
  slideshow,      \* clicks, listeners, promise jobs, images, texture.image
  asset           \* the latest call of assetURL: arguments and result

vars == <<vw, vh, win, imageSize, res, rendererSize, aspect, mouse, velocity,
          lastTime, lastMouse, now, flowmap, uTime, raf, ticks, draws,
          pointer, frame, slideshow, asset>>

geometryVars == <<res, rendererSize, aspect>>
pointerVars == <<mouse, velocity, lastTime, lastMouse, pointer>>
frameVars == <<flowmap, uTime, raf, ticks, draws, frame>>
slideVars == <<slideshow, asset>>

(***************************************************************************)
(* Viewport geometry.                                                      *)
(***************************************************************************)
\* let winAspectRatio = (vh / vw): computed once from the captured size.
winAspectRatio == Rat(vh, vw)

\* A variant that takes the image's ratio as width over height.
imgAspectRatio_portrait(img) == Rat(img[1], img[2])

imgAspectRatio(img) == Rat(img[2], img[1])

\* A variant with the comparison the other way round (the whole image fits
\* inside the window).
CoverFactors_contain(img) ==
  IF RLess(imgAspectRatio(img), winAspectRatio)
  THEN <<One, RDiv(winAspectRatio, imgAspectRatio(img))>>
  ELSE <<RMul(Rat(vw, vh), imgAspectRatio(img)), One>>

\* The if/else that derives a1 and a2.
CoverFactors(img) ==
  IF RLess(winAspectRatio, imgAspectRatio(img))
  THEN <<One, RDiv(winAspectRatio, imgAspectRatio(img))>>
  ELSE <<RMul(Rat(vw, vh), imgAspectRatio(img)), One>>

\* new Vec4(vw, vh, a1, a2)
ResVec(img) == <<vw, vh, CoverFactors(img)[1], CoverFactors(img)[2]>>

\* The script's own a1, a2 (let a1, a2; ... if/else), which the Program's res
\* uniform is created with: new Vec4(vw, vh, a1, a2).
StartupRes(img) ==
  IF RLess(winAspectRatio, Rat(img[2], img[1]))
  THEN <<vw, vh, One, RDiv(winAspectRatio, Rat(img[2], img[1]))>>
  ELSE <<vw, vh, RMul(Rat(vw, vh), Rat(img[2], img[1])), One>>

\* function resize()
resize ==
  /\ res' = ResVec(imageSize)
  /\ rendererSize' = <<vw, vh>>
  /\ aspect' = Rat(vw, vh)

(***************************************************************************)
(* Pointer tracker.                                                        *)
(***************************************************************************)
NoEvent == [x |-> 0, y |-> 0, t |-> 0]

\* The pixel the handler works with: changedTouches[0].pageX/pageY for a touch
\* event, else e.x/e.y.
EventPoint(e) ==
  IF e.type = "touchmove" THEN <<e.pageX, e.pageY>> ELSE <<e.x, e.y>>

\* mouse.set(e.x / gl.renderer.width, 1.0 - e.y / gl.renderer.height)
Normalized(p, size) == <<Rat(p[1], size[1]), RSub(One, Rat(p[2], size[2]))>>

\* A variant without the floor.
Delta_noFloor(time, last) == RInt(time - last)

\* Math.max(10.4, time - lastTime)
Delta(time, last) == RMax(MinDelta, RInt(time - last))

\* The host delivers a pointer event for a pixel inside the window.
InWindow(p) == p[1] < win[1] /\ p[2] < win[2]

\* A variant that also issues a draw.
updateMouse_draws(e, d) ==
  LET p == EventPoint(e)
      first == lastTime = 0
      seedTime == IF first THEN now + d ELSE lastTime
      seedMouse == IF first THEN p ELSE lastMouse
      deltaX == p[1] - seedMouse[1]
      deltaY == p[2] - seedMouse[2]
      time == now + d
      delta == Delta(time, seedTime)
  IN  /\ InWindow(p)
      /\ mouse' = Normalized(p, rendererSize)
      /\ lastMouse' = p
      /\ lastTime' = time
      /\ velocity' = [x |-> RDiv(RInt(deltaX), delta),
                      y |-> RDiv(RInt(deltaY), delta),
                      needsUpdate |-> TRUE]
      /\ now' = time
      /\ pointer' = [prior |-> pointer.prev,
                     prev |-> pointer.last,
                     last |-> [x |-> p[1], y |-> p[2], t |-> time],
                     since |-> pointer.since + 1,
                     count |-> pointer.count + 1,
                     tick |-> ticks]
      /\ draws' = draws + 1
      /\ UNCHANGED <<slideVars, vw, vh, win, imageSize, geometryVars, flowmap, uTime,
                     raf,
                     ticks, frame>>

\* A variant that does not seed the last sample from the first event.
updateMouse_noSeed(e, d) ==
  LET p == EventPoint(e)
      seedTime == lastTime
      seedMouse == lastMouse
      deltaX == p[1] - seedMouse[1]
      deltaY == p[2] - seedMouse[2]
      time == now + d
      delta == Delta(time, seedTime)
  IN  /\ InWindow(p)
      /\ mouse' = Normalized(p, rendererSize)
      /\ lastMouse' = p
      /\ lastTime' = time
      /\ velocity' = [x |-> RDiv(RInt(deltaX), delta),
                      y |-> RDiv(RInt(deltaY), delta),
                      needsUpdate |-> TRUE]
      /\ now' = time
      /\ pointer' = [prior |-> pointer.prev,
                     prev |-> pointer.last,
                     last |-> [x |-> p[1], y |-> p[2], t |-> time],
                     since |-> pointer.since + 1,
                     count |-> pointer.count + 1,
                     tick |-> ticks]
      /\ UNCHANGED <<slideVars, vw, vh, win, imageSize, geometryVars, frameVars>>

\* A variant that writes the position and leaves the velocity as it was.
updateMouse_positionOnly(e, d) ==
  LET p == EventPoint(e)
      first == lastTime = 0
      seedTime == IF first THEN now + d ELSE lastTime
      seedMouse == IF first THEN p ELSE lastMouse
      deltaX == p[1] - seedMouse[1]
      deltaY == p[2] - seedMouse[2]
      time == now + d
      delta == Delta(time, seedTime)
  IN  /\ InWindow(p)
      /\ mouse' = Normalized(p, rendererSize)
      /\ lastMouse' = p
      /\ lastTime' = time
      /\ velocity' = [velocity EXCEPT !.needsUpdate = TRUE]
      /\ now' = time
      /\ pointer' = [prior |-> pointer.prev,
                     prev |-> pointer.last,
                     last |-> [x |-> p[1], y |-> p[2], t |-> time],
                     since |-> pointer.since + 1,
                     count |-> pointer.count + 1,
                     tick |-> ticks]
      /\ UNCHANGED <<slideVars, vw, vh, win, imageSize, geometryVars, frameVars>>

\* A variant that adds each event's velocity to the one already there.
updateMouse_accumulates(e, d) ==
  LET p == EventPoint(e)
      first == lastTime = 0
      seedTime == IF first THEN now + d ELSE lastTime
      seedMouse == IF first THEN p ELSE lastMouse
      deltaX == p[1] - seedMouse[1]
      deltaY == p[2] - seedMouse[2]
      time == now + d
      delta == Delta(time, seedTime)
  IN  /\ InWindow(p)
      /\ mouse' = Normalized(p, rendererSize)
      /\ lastMouse' = p
      /\ lastTime' = time
      /\ velocity' = [x |-> RAdd(velocity.x, RDiv(RInt(deltaX), delta)),
                      y |-> RAdd(velocity.y, RDiv(RInt(deltaY), delta)),
                      needsUpdate |-> TRUE]
      /\ now' = time
      /\ pointer' = [prior |-> pointer.prev,
                     prev |-> pointer.last,
                     last |-> [x |-> p[1], y |-> p[2], t |-> time],
                     since |-> pointer.since + 1,
                     count |-> pointer.count + 1,
                     tick |-> ticks]
      /\ UNCHANGED <<slideVars, vw, vh, win, imageSize, geometryVars, frameVars>>

\* function updateMouse(e), run d ms after the previous handler.  The first
\* event reads the clock twice; its displacement is 0 whatever passes between
\* the two reads, which are taken here at the same instant.
updateMouse(e, d) ==
  LET p == EventPoint(e)
      first == lastTime = 0
      seedTime == IF first THEN now + d ELSE lastTime
      seedMouse == IF first THEN p ELSE lastMouse
      deltaX == p[1] - seedMouse[1]
      deltaY == p[2] - seedMouse[2]
      time == now + d
      delta == Delta(time, seedTime)
  IN  /\ InWindow(p)
      /\ mouse' = Normalized(p, rendererSize)
      /\ lastMouse' = p
      /\ lastTime' = time
      /\ velocity' = [x |-> RDiv(RInt(deltaX), delta),
                      y |-> RDiv(RInt(deltaY), delta),
                      needsUpdate |-> TRUE]
      /\ now' = time
      /\ pointer' = [prior |-> pointer.prev,
                     prev |-> pointer.last,
                     last |-> [x |-> p[1], y |-> p[2], t |-> time],
                     since |-> pointer.since + 1,
                     count |-> pointer.count + 1,
                     tick |-> ticks]
      /\ UNCHANGED <<slideVars, vw, vh, win, imageSize, geometryVars, frameVars>>

(***************************************************************************)
(* Frame driver.  A tick is the composition of its statements, each a      *)
(* function of the state record the tick works on.                         *)
(***************************************************************************)
\* One statement applied to the state the statements before it left.
Then(Statement(_), s) == Call1(Statement, s)

\* requestAnimationFrame(update)
RequestFrame(s) ==
  [s EXCEPT !.raf = @ + 1, !.frame.log = Append(@, "raf")]

\* A variant that resets the position only and keeps the velocity.
IdleReset_keepVelocity(s) ==
  LET idle == ~s.velocity.needsUpdate
  IN  [s EXCEPT !.mouse = IF idle THEN Sentinel ELSE s.mouse,
                !.velocity.needsUpdate = FALSE,
                !.frame.reset = idle,
                !.frame.log = Append(@, "flag")]

\* A variant that never clears the flag.
IdleReset_keepFlag(s) ==
  LET idle == ~s.velocity.needsUpdate
      m == IF idle THEN Sentinel ELSE s.mouse
      v == IF idle THEN [s.velocity EXCEPT !.x = Zero, !.y = Zero]
           ELSE s.velocity
  IN  [s EXCEPT !.mouse = m, !.velocity = v, !.frame.reset = idle,
                !.frame.log = Append(@, "flag")]

\* A variant that resets the velocity only and keeps the position.
IdleReset_keepMouse(s) ==
  LET idle == ~s.velocity.needsUpdate
      v == IF idle THEN [s.velocity EXCEPT !.x = Zero, !.y = Zero]
           ELSE s.velocity
  IN  [s EXCEPT !.velocity = [v EXCEPT !.needsUpdate = FALSE],
                !.frame.reset = idle,
                !.frame.log = Append(@, "flag")]

\* if (!velocity.needsUpdate) { mouse.set(-1); velocity.set(0); }
\* velocity.needsUpdate = false;
IdleReset(s) ==
  LET idle == ~s.velocity.needsUpdate
      m == IF idle THEN Sentinel ELSE s.mouse
      v == IF idle THEN [s.velocity EXCEPT !.x = Zero, !.y = Zero]
           ELSE s.velocity
  IN  [s EXCEPT !.mouse = m,
                !.velocity = [v EXCEPT !.needsUpdate = FALSE],
                !.frame.reset = idle,
                !.frame.log = Append(@, "flag")]

\* velocity.len ? 0.15 : 0.1.  The operand is the property len read without a
\* call; on an ogl Vec2 len is a method, and a function object is truthy
\* whatever the vector holds.
EaseRate(v) == EaseIn

\* Vec2.lerp(v, t): this += t * (v - this), per component.
Lerp(a, b, t) ==
  <<RAdd(a[1], RMul(t, RSub(b[1], a[1]))), RAdd(a[2], RMul(t, RSub(b[2], a[2])))>>

\* flowmap.aspect = aspect; flowmap.mouse.copy(mouse);
\* flowmap.velocity.lerp(velocity, velocity.len ? 0.15 : 0.1);
FlowInputs(s) ==
  LET raw == <<s.velocity.x, s.velocity.y>>
      rate == EaseRate(raw)
  IN  [s EXCEPT !.flowmap.aspect = s.aspect,
                !.flowmap.mouse = s.mouse,
                !.flowmap.velocity = Lerp(@, raw, rate),
                !.frame.raw = raw,
                !.frame.from = s.flowmap.velocity,
                !.frame.rate = rate]

\* flowmap.update(): render the pass into the write buffer, then swap the
\* roles and point the uniform at the new read buffer.
FlowmapUpdate(s) ==
  LET fm == s.flowmap
  IN  [s EXCEPT !.flowmap.tex = [fm.tex EXCEPT ![fm.write] = s.tick],
                !.flowmap.read = fm.write,
                !.flowmap.write = fm.read,
                !.flowmap.uniform = fm.write,
                !.frame.log = Append(@, "flowmap")]

\* program.uniforms.uTime.value = t * 0.01
SetTime(s, t) ==
  [s EXCEPT !.uTime = RMul(RInt(t), TimeScale), !.frame.log = Append(@, "uTime")]

\* renderer.render({ scene: mesh }): the pass samples tFlow, which is the
\* flowmap's uniform object.
Render(s) ==
  [s EXCEPT !.draws = @ + 1,
            !.frame.drawn = s.flowmap.tex[s.flowmap.uniform],
            !.frame.log = Append(@, "draw")]

\* A variant that draws before it updates the flowmap.
UpdateBody_drawFirst(s, t) ==
  LET Timed(r) == SetTime(r, t)
  IN  Then(Timed, Then(FlowmapUpdate, Then(Render, Then(FlowInputs,
        Then(IdleReset, Then(RequestFrame, s))))))

\* A variant that updates the flowmap twice in a tick.
UpdateBody_twoUpdates(s, t) ==
  LET Timed(r) == SetTime(r, t)
  IN  Then(Render, Then(Timed, Then(FlowmapUpdate, Then(FlowmapUpdate,
        Then(FlowInputs, Then(IdleReset, Then(RequestFrame, s)))))))

\* The statements of update(t) in program order.
UpdateBody(s, t) ==
  LET Timed(r) == SetTime(r, t)
  IN  Then(Render, Then(Timed, Then(FlowmapUpdate, Then(FlowInputs,
        Then(IdleReset, Then(RequestFrame, s))))))

\* A variant of the prefix below with the re-arm as the last statement.
UpdatePrefix_rearmLast(s, t, n) ==
  LET Timed(r) == SetTime(r, t)
      s1 == Then(IdleReset, s)
      s2 == Then(FlowInputs, s1)
      s3 == Then(FlowmapUpdate, s2)
      s4 == Then(Timed, s3)
      s5 == Then(Render, s4)
  IN  CASE n = 1 -> s1 [] n = 2 -> s2 [] n = 3 -> s3 [] n = 4 -> s4
        [] n = 5 -> s5 [] OTHER -> Then(RequestFrame, s5)

\* update(t) left by an exception: the state after its first n statement
\* groups (the re-arm, the reset and flag clear, the flowmap inputs,
\* flowmap.update(), the uTime assignment), the next one having thrown.
UpdatePrefix(s, t, n) ==
  LET Timed(r) == SetTime(r, t)
      s1 == Then(RequestFrame, s)
      s2 == Then(IdleReset, s1)
      s3 == Then(FlowInputs, s2)
      s4 == Then(FlowmapUpdate, s3)
      s5 == Then(Timed, s4)
  IN  CASE n = 1 -> s1 [] n = 2 -> s2 [] n = 3 -> s3 [] n = 4 -> s4
        [] n = 5 -> s5 [] OTHER -> Then(Render, s5)

\* function update(t): the host runs one pending frame callback d ms after
\* the previous handler.
update(d) ==
  LET t == now + d
      s0 == [raf |-> raf - 1, mouse |-> mouse, velocity |-> velocity,
             aspect |-> aspect, flowmap |-> flowmap, uTime |-> uTime,
             draws |-> draws, tick |-> ticks + 1,
             frame |-> [hadEvent |-> pointer.since > 0,
                        events |-> pointer.since, reset |-> FALSE,
                        raw |-> ZeroVec, from |-> ZeroVec, rate |-> Zero,
                        drawn |-> 0, log |-> <<>>, faults |-> frame.faults]]
  IN  /\ raf > 0
      /\ ticks < MaxTicks
      /\ \E s \in {UpdateBody(s0, t)} :
           /\ now' = t
           /\ ticks' = ticks + 1
           /\ raf' = s.raf
           /\ mouse' = s.mouse
           /\ velocity' = s.velocity
           /\ flowmap' = s.flowmap
           /\ uTime' = s.uTime
           /\ draws' = s.draws
           /\ frame' = s.frame
           /\ pointer' = [pointer EXCEPT !.since = 0]
           /\ UNCHANGED <<slideVars, vw, vh, win, imageSize, geometryVars, lastTime,
                          lastMouse>>

\* update(t) when a call it makes throws: the callback ends after n of its
\* statement groups, the host reports the error and goes on.
updateThrows(d, n) ==
  LET t == now + d
      s0 == [raf |-> raf - 1, mouse |-> mouse, velocity |-> velocity,
             aspect |-> aspect, flowmap |-> flowmap, uTime |-> uTime,
             draws |-> draws, tick |-> ticks + 1,
             frame |-> [hadEvent |-> pointer.since > 0,
                        events |-> pointer.since, reset |-> FALSE,
                        raw |-> ZeroVec, from |-> ZeroVec, rate |-> Zero,
                        drawn |-> 0, log |-> <<>>,
                        faults |-> frame.faults + 1]]
  IN  /\ raf > 0
      /\ ticks < MaxTicks
      /\ \E s \in {UpdatePrefix(s0, t, n)} :
           /\ now' = t
           /\ ticks' = ticks + 1
           /\ raf' = s.raf
           /\ mouse' = s.mouse
           /\ velocity' = s.velocity
           /\ flowmap' = s.flowmap
           /\ uTime' = s.uTime
           /\ draws' = s.draws
           /\ frame' = s.frame
           /\ pointer' = [pointer EXCEPT !.since = 0]
           /\ UNCHANGED <<slideVars, vw, vh, win, imageSize, geometryVars, lastTime,
                          lastMouse>>

\* The window changes size and the 'resize' listener runs resize().
windowResize(size) ==
  /\ size # win
  /\ win' = size
  /\ resize
  /\ UNCHANGED <<slideVars, vw, vh, imageSize, pointerVars, frameVars, now>>

(***************************************************************************)
(* Image slideshow.  A handler is one task of the event loop; the promise  *)
(* reaction jobs it leaves are run, in order, before the next task.        *)
(***************************************************************************)
\* struct.k is defined and truthy (a non-empty string).
Has(struct, k) == k \in DOMAIN struct /\ struct[k] # ""

fileNameExtensions ==
  [jpg |-> "jpg", jpeg |-> "jpeg", webp |-> "webp", avif |-> "avif"]

\* const assetURL = (inode = 0, struct = {}) => ...
assetURL(inode, struct) ==
  LET assetPrefix == IF Has(struct, "prefix") THEN struct["prefix"] ELSE ""
      basePath ==
        (IF Has(struct, "base") THEN struct["base"] ELSE "images") \o "/"
      fileName == IF Has(struct, "name") THEN struct["name"] ELSE "img"
      fileDesc == IF Has(struct, "desc") THEN struct["desc"] ELSE ToString(inode)
      extension ==
        "." \o (IF "format" \in DOMAIN struct
                     /\ struct["format"] \in DOMAIN fileNameExtensions
                THEN fileNameExtensions[struct["format"]] ELSE "undefined")
      suffix ==
        IF Has(struct, "suffix") THEN struct["suffix"] \o extension
        ELSE extension
  IN  assetPrefix \o basePath \o fileName \o fileDesc \o suffix

texturesArray ==
  <<[url |-> "tex/img0-q80.jpg", ar |-> <<ImageW, ImageH>>],
    [url |-> "tex/img1-q80.jpg", ar |-> <<ImageW, ImageH>>],
    [url |-> "tex/img2-q80.jpg", ar |-> <<ImageW, ImageH>>],
    [url |-> "tex/img3-q80.jpg", ar |-> <<ImageW, ImageH>>]>>

\* { length: amount } = texturesArray
amount == Len(texturesArray)

\* The urlStruct of switchTextures.
urlStruct == [base |-> "tex", name |-> "img", format |-> "jpg", suffix |-> "-q80"]

\* A variant that resolves one value later.
isEndOfQueue_late(currVal, maxVal) ==
  IF currVal >= maxVal THEN "fulfilled" ELSE "rejected"

\* isEndOfQueue(currVal, maxVal): the state of the promise it returns.
isEndOfQueue(currVal, maxVal) ==
  IF currVal >= maxVal - 1 THEN "fulfilled" ELSE "rejected"

\* A variant that appends the listener although it is registered.
AddListener_again(n) == n + 1

\* doc.addEventListener('click', onClickEv, false) on a target that holds
\* the listener n times: a listener already in the list is not added again.
AddListener(n) == IF n > 0 THEN n ELSE 1

\* doc.removeEventListener('click', onClickEv, false)
RemoveListener(n) == IF n > 0 THEN n - 1 ELSE 0

\* new Image() after createImage(): the 'load' listener imgOnLoadEv is
\* attached, no src is set.
NewImage(num) ==
  [num |-> num, src |-> "", status |-> "unset", loadListener |-> TRUE,
   onload |-> FALSE, onerror |-> FALSE]

\* img.complete: true for an image without src, for one that is loaded and
\* for one that is broken.
Complete(img) == img.src = "" \/ img.status \in {"loaded", "broken"}

\* switchTextures() as the listeners call it, without arguments: the part
\* that runs in the caller's task.  hasEqualDims is true and hasDiffSizes
\* false, so imageSize is left alone; pickTexture() runs up to its await
\* and createImage() to its end.
SwitchTextures(s) ==
  LET num == s.clicks
      location == assetURL(num, urlStruct)
      img == Len(s.images) + 1
  IN  [s EXCEPT !.clicks = @ + 1,
                !.calls = @ + 1,
                !.selected = num,
                !.images = Append(@, NewImage(num)),
                !.jobs = @ \o <<[job |-> "then", num |-> num,
                                 state |-> isEndOfQueue(num, amount)],
                                [job |-> "image", img |-> img,
                                 location |-> location]>>]

\* .then(() => { clicks = 0; doc.removeEventListener(...) }): a rejection
\* passes through to the promise .finally() is attached to.
ThenJob(s, j) ==
  LET t == IF j.state = "fulfilled"
           THEN [s EXCEPT !.clicks = 0,
                          !.listeners = RemoveListener(@),
                          !.removals = @ + 1]
           ELSE s
  IN  [t EXCEPT !.jobs = Append(@, [job |-> "finally", num |-> j.num,
                                    state |-> j.state])]

\* .finally(() => { if (isLooped) doc.addEventListener(...) }), isLooped
\* being true; the promise .finally() returns has no handler, and a
\* rejection it adopts is reported as unhandled.
FinallyJob(s, j) ==
  [s EXCEPT !.listeners = AddListener(@),
            !.unhandled = IF j.state = "rejected" THEN @ + 1 ELSE @]

\* The callback pickTexture passes to createImage().then(): set img.onload,
\* detach imgOnLoadEv if img.complete, assign img.src.
ImageJob(s, j) ==
  LET img == s.images[j.img]
  IN  [s EXCEPT !.images[j.img] =
                   [img EXCEPT !.onload = TRUE,
                               !.loadListener = IF Complete(img) THEN FALSE ELSE @,
                               !.src = j.location,
                               !.status = "loading"]]

\* The job at the head of the queue is run.
RunJob(s) ==
  LET j == Head(s.jobs)
      t == [s EXCEPT !.jobs = Tail(@)]
  IN  CASE j.job = "then" -> ThenJob(t, j)
        [] j.job = "finally" -> FinallyJob(t, j)
        [] OTHER -> ImageJob(t, j)

\* img.onload = () => (texture.image = img).onerror = (e) => (console.error(e))
OnLoad(s, i) ==
  IF s.images[i].onload
  THEN [s EXCEPT !.texture = i, !.images[i].onerror = TRUE]
  ELSE s

\* A variant in which a broken image is given to the texture.
ImgError_binds(s, i) ==
  [s EXCEPT !.images[i].status = "broken", !.failed = @ + 1,
            !.failTick = ticks, !.texture = i]

\* The 'error' event of image i: the element has no 'error' listener, and
\* its onerror, where one is set, only logs.
ImgError(s, i) ==
  [s EXCEPT !.images[i].status = "broken", !.failed = @ + 1,
            !.failTick = ticks]

\* The window's 'load' event: onLoadEv.
windowLoad ==
  /\ slideshow.jobs = <<>>
  /\ ~slideshow.loadFired
  /\ slideshow.calls + slideshow.dropped < MaxCalls
  /\ slideshow' = SwitchTextures([slideshow EXCEPT !.loadFired = TRUE])
  /\ UNCHANGED <<asset, vw, vh, win, imageSize, geometryVars, pointerVars,
                 frameVars, now>>

\* A click on the document: onClickEv if it is registered.
click ==
  /\ slideshow.jobs = <<>>
  /\ slideshow.calls + slideshow.dropped < MaxCalls
  /\ slideshow' = IF slideshow.listeners > 0 THEN SwitchTextures(slideshow)
                  ELSE [slideshow EXCEPT !.dropped = @ + 1]
  /\ UNCHANGED <<asset, vw, vh, win, imageSize, geometryVars, pointerVars,
                 frameVars, now>>

\* One promise reaction job.
runJob ==
  /\ slideshow.jobs # <<>>
  /\ slideshow' = RunJob(slideshow)
  /\ UNCHANGED <<asset, vw, vh, win, imageSize, geometryVars, pointerVars,
                 frameVars, now>>

\* The 'load' event of image i: imgOnLoadEv (getImgAspectRatio(...) &&
\* resize()) if it is still attached, then img.onload.
imageLoad(i) ==
  /\ slideshow.jobs = <<>>
  /\ slideshow.images[i].status = "loading"
  /\ LET listening == slideshow.images[i].loadListener
         s == [slideshow EXCEPT !.images[i].status = "loaded",
                                !.loaded = @ + 1,
                                !.resizes = IF listening THEN @ + 1 ELSE @]
     IN  /\ slideshow' = OnLoad(s, i)
         /\ IF listening THEN resize ELSE UNCHANGED geometryVars
  /\ UNCHANGED <<asset, vw, vh, win, imageSize, pointerVars, frameVars, now>>

\* The 'error' event of image i.
imageError(i) ==
  /\ slideshow.jobs = <<>>
  /\ slideshow.images[i].status = "loading"
  /\ slideshow' = ImgError(slideshow, i)
  /\ UNCHANGED <<asset, vw, vh, win, imageSize, geometryVars, pointerVars,
                 frameVars, now>>

\* A frame callback, run as a task of its own.
frameTask ==
  /\ slideshow.jobs = <<>>
  /\ \E d \in FrameDts : update(d)

\* assetURL(inode, struct) is called.
assetURLCall(inode, struct) ==
  /\ asset' = [inode |-> inode, struct |-> struct,
               url |-> assetURL(inode, struct)]
  /\ UNCHANGED <<slideshow, vw, vh, win, imageSize, geometryVars, pointerVars,
                 frameVars, now>>

(***************************************************************************)
(* The page after the script has run to its end: resize() has been called  *)
(* once and the first frame callback is requested.                         *)
(***************************************************************************)
NoFrame ==
  [hadEvent |-> FALSE, events |-> 0, reset |-> FALSE, raw |-> ZeroVec,
   from |-> ZeroVec,
   rate |-> Zero, drawn |-> 0, log |-> <<>>, faults |-> 0]

\* clicks = 0, the click listener attached, texture.image not set.
NewSlideshow ==
  [clicks |-> 0, listeners |-> 1, loadFired |-> FALSE, calls |-> 0,
   selected |-> 0, jobs |-> <<>>, images |-> <<>>, texture |-> 0,
   dropped |-> 0, removals |-> 0, loaded |-> 0, resizes |-> 0, failed |-> 0,
   failTick |-> 0, alerts |-> 0, unhandled |-> 0]

NoAsset == [inode |-> 0, struct |-> [k \in {} |-> ""], url |-> ""]

\* new Flowmap(gl): two render targets, the uniform on the read one.
NewFlowmap ==
  [aspect |-> One, mouse |-> ZeroVec, velocity |-> ZeroVec,
   read |-> "A", write |-> "B", uniform |-> "A",
   tex |-> [b \in {"A", "B"} |-> 0]]

Init ==
  /\ \E size \in Viewports : vw = size[1] /\ vh = size[2] /\ win = size
  /\ imageSize = <<ImageW, ImageH>>
  /\ res = ResVec(imageSize)
  /\ rendererSize = <<vw, vh>>
  /\ aspect = Rat(vw, vh)
  /\ mouse = Sentinel
  /\ velocity = [x |-> Zero, y |-> Zero, needsUpdate |-> FALSE]
  /\ lastTime = 0
  /\ lastMouse = <<0, 0>>
  /\ now = 1
  /\ flowmap = NewFlowmap
  /\ uTime = Zero
  /\ raf = 1
  /\ ticks = 0
  /\ draws = 0
  /\ pointer = [prior |-> NoEvent, prev |-> NoEvent, last |-> NoEvent,
                since |-> 0, count |-> 0, tick |-> -2]
  /\ frame = NoFrame
  /\ slideshow = NewSlideshow
  /\ asset = NoAsset

Next ==
  \/ \E e \in Events, d \in Dts :
       pointer.count < MaxEvents /\ updateMouse(e, d)
  \/ \E d \in FrameDts : update(d)
  \/ \E size \in Viewports : windowResize(size)

Spec == Init /\ [][Next]_vars

(***************************************************************************)
(* The frame loop when calls made by update() may throw.  The host runs a  *)
(* requested frame callback at the next display refresh.                   *)
(***************************************************************************)
\* One frame callback runs, to its end or to an exception.
Tick ==
  \/ \E d \in FrameDts : update(d)
  \/ \E d \in FrameDts, n \in 1 .. 5 : updateThrows(d, n)

NextLoop ==
  \/ \E e \in Events, d \in FrameDts :
       pointer.count < MaxEvents /\ updateMouse(e, d)
  \/ Tick

SpecLoop == Init /\ [][NextLoop]_vars /\ WF_vars(Tick)

(***************************************************************************)
(* Bursts of pointer events: up to MaxBurst mouse events and the frame     *)
(* callbacks, in any order.                                                *)
(***************************************************************************)
MouseEvents == {e \in Events : e.type = "mousemove"}

NextBurst ==
  \/ \E e \in MouseEvents, d \in Dts :
       pointer.count < MaxBurst /\ updateMouse(e, d)
  \/ \E d \in FrameDts : update(d)

SpecBurst == Init /\ [][NextBurst]_vars

(***************************************************************************)
(* The slideshow and the frame loop: page load, clicks, promise jobs, the  *)
(* images' load and error events, frame callbacks.                         *)
(***************************************************************************)
NextSlideshow ==
  \/ windowLoad
  \/ click
  \/ runJob
  \/ \E i \in 1 .. MaxCalls : i <= Len(slideshow.images) /\ imageLoad(i)
  \/ \E i \in 1 .. MaxCalls : i <= Len(slideshow.images) /\ imageError(i)
  \/ frameTask

SpecSlideshow == Init /\ [][NextSlideshow]_vars

(***************************************************************************)
(* assetURL alone, called with any index of the slideshow and any struct   *)
(* made of the fields below.                                               *)
(***************************************************************************)
NextURL == \E inode \in Inodes, struct \in Structs : assetURLCall(inode, struct)

SpecURL == Init /\ [][NextURL]_vars

(***************************************************************************)
(* The geometry alone: the script up to the creation of the mesh, for any  *)
(* window and image size, and then the calls of resize().                  *)
(***************************************************************************)
InitGeometry ==
  /\ \E w \in Dims, h \in Dims : vw = w /\ vh = h /\ win = <<w, h>>
  /\ imageSize \in Dims \X Dims
  /\ res = StartupRes(imageSize)
  /\ rendererSize = <<DefaultWidth, DefaultHeight>>
  /\ aspect = One
  /\ mouse = Sentinel
  /\ velocity = [x |-> Zero, y |-> Zero, needsUpdate |-> FALSE]
  /\ lastTime = 0
  /\ lastMouse = <<0, 0>>
  /\ now = 1
  /\ flowmap = NewFlowmap
  /\ uTime = Zero
  /\ raf = 0
  /\ ticks = 0
  /\ draws = 0
  /\ pointer = [prior |-> NoEvent, prev |-> NoEvent, last |-> NoEvent,
                since |-> 0, count |-> 0, tick |-> -2]
  /\ frame = NoFrame
  /\ slideshow = NewSlideshow
  /\ asset = NoAsset

\* resize(); as the script calls it after creating the mesh.
resizeCall ==
  /\ resize
  /\ UNCHANGED <<slideVars, vw, vh, win, imageSize, pointerVars, frameVars, now>>

NextGeometry == resizeCall

SpecGeometry == InitGeometry /\ [][NextGeometry]_vars

(***************************************************************************)
(* Properties.                                                             *)
(***************************************************************************)
\* C1 (idle snap): a frame tick before which no pointer event ran since the
\* previous tick hands the sentinel (-1,-1) to the flowmap as the position and
\* eases toward the velocity (0,0).
C1_IdleSnap ==
  (ticks > 0 /\ ~frame.hadEvent) =>
    (flowmap.mouse = Sentinel /\ frame.raw = ZeroVec)

\* An idle tick that came after a tick with a non-zero velocity.
C1_Witness ==
  /\ ticks >= 2
  /\ ~frame.hadEvent
  /\ frame.from # ZeroVec
  /\ flowmap.mouse = Sentinel
  /\ frame.raw = ZeroVec

\* The time in ms between the last two pointer events, and their displacement.
Elapsed == pointer.last.t - pointer.prev.t
DispX == pointer.last.x - pointer.prev.x
DispY == pointer.last.y - pointer.prev.y

\* displacement / max(10.4, elapsed), written out with 10.4 = 52/5.
Floored(disp, elapsed) ==
  IF 5 * elapsed < 52 THEN Rat(5 * disp, 52) ELSE Rat(disp, elapsed)

\* C2 (velocity floor): after every pointer event but the first, each
\* component of the velocity is the displacement from the previous event
\* divided by max(10.4, elapsed ms since the previous event).
C2_VelocityFloor ==
  (pointer.count >= 2 /\ pointer.since > 0) =>
    /\ velocity.x = Floored(DispX, Elapsed)
    /\ velocity.y = Floored(DispY, Elapsed)

\* Two events 1 ms apart, displaced by (5,5): the velocity is (5/10.4, 5/10.4).
C2_Witness ==
  /\ pointer.count >= 2
  /\ pointer.since > 0
  /\ Elapsed = 1
  /\ DispX = 5 /\ DispY = 5
  /\ velocity.x = <<25, 52>> /\ velocity.y = <<25, 52>>

\* C3 (buffer swap parity): the flowmap has two buffers, one read and one
\* write; after N frame ticks the read buffer is the initial read buffer when
\* N is even and the initial write buffer when N is odd, whatever pointer and
\* resize events ran in between.
C3_BufferParity ==
  /\ {flowmap.read, flowmap.write} = {"A", "B"}
  /\ flowmap.read # flowmap.write
  /\ flowmap.read = IF ticks % 2 = 0 THEN NewFlowmap.read ELSE NewFlowmap.write
  /\ flowmap.uniform = flowmap.read

\* Three ticks with pointer events and a window resize among them.
C3_Witness ==
  /\ ticks = 3
  /\ pointer.count > 0
  /\ win # <<vw, vh>>
  /\ flowmap.read = NewFlowmap.write

\* C5 (aspect correction): the factors in the res uniform are a1 = 1,
\* a2 = (Hv/Wv)/(Hi/Wi) when Hv/Wv < Hi/Wi, and a1 = (Wv/Hv)*(Hi/Wi), a2 = 1
\* otherwise; with equal ratios both are 1.
C5_AspectCorrection ==
  LET hvwi == vh * imageSize[1]
      hiwv == imageSize[2] * vw
  IN  /\ hvwi < hiwv => (res[3] = One /\ res[4] = Rat(hvwi, hiwv))
      /\ hvwi >= hiwv => (res[3] = Rat(hiwv, hvwi) /\ res[4] = One)
      /\ hvwi = hiwv => (res[3] = One /\ res[4] = One)

\* resize() has run for a window less tall than the image, neither square.
C5_Witness ==
  /\ rendererSize = <<vw, vh>>
  /\ vw # vh
  /\ imageSize[1] # imageSize[2]
  /\ vh * imageSize[1] < imageSize[2] * vw
  /\ res[3] = One
  /\ res[4] # One

\* What the geometry is for a window of the given size.
ResFor(size, img) ==
  LET hvwi == size[2] * img[1]
      hiwv == img[2] * size[1]
  IN  IF hvwi < hiwv THEN <<size[1], size[2], One, Rat(hvwi, hiwv)>>
      ELSE <<size[1], size[2], Rat(hiwv, hvwi), One>>

\* C6 (geometry recomputed on change): the res uniform, the renderer size and
\* the aspect given to the flowmap are those of the window's current size and
\* the current image size.
C6_GeometryCurrent ==
  /\ res = ResFor(win, imageSize)
  /\ rendererSize = win
  /\ aspect = Rat(win[1], win[2])

\* C7 (one-shot moved flag): the flag is up exactly while a pointer event has
\* run since the latest tick, and a tick skips the idle reset exactly when a
\* pointer event ran between the previous tick and it.
C7_OneShotFlag ==
  /\ velocity.needsUpdate <=> pointer.since > 0
  /\ ticks > 0 => (frame.reset <=> ~frame.hadEvent)

\* The second tick after the last pointer event did the idle reset.
C7_Witness ==
  /\ pointer.count > 0
  /\ ticks = pointer.tick + 2
  /\ ~frame.hadEvent
  /\ frame.reset
  /\ ~velocity.needsUpdate

\* C8 (no stale velocity): from the second tick after the last pointer event
\* on, the raw velocity is (0,0) and the position is the sentinel.
C8_NoStaleVelocity ==
  ticks - pointer.tick >= 2 =>
    (velocity.x = Zero /\ velocity.y = Zero /\ mouse = Sentinel)

\* Three ticks after a pointer event that moved the pointer.
C8_Witness ==
  /\ pointer.count >= 2
  /\ DispX # 0
  /\ ticks - pointer.tick = 3
  /\ velocity.x = Zero /\ velocity.y = Zero /\ mouse = Sentinel

\* C9 (velocity easing rate): each tick moves the smoothed velocity toward the
\* raw velocity by linear interpolation, with rate 0.15 when the raw velocity
\* is non-zero and 0.1 when it is zero.
C9_EasingRate ==
  ticks > 0 =>
    flowmap.velocity =
      Lerp(frame.from, frame.raw,
           IF frame.raw # ZeroVec THEN EaseIn ELSE EaseOut)

\* C10 (tick sequencing): a tick re-arms the frame callback, evaluates idle
\* and clears the flag, updates the flowmap, sets uTime and draws, in this
\* order and once each; the draw samples the buffer that the same tick's
\* flowmap update wrote.
C10_TickSequencing ==
  ticks > 0 =>
    /\ frame.log = <<"raf", "flag", "flowmap", "uTime", "draw">>
    /\ frame.drawn = ticks
    /\ draws = ticks
    /\ uTime = RMul(RInt(now), TimeScale) \/ pointer.since > 0

\* The third tick has drawn the buffer it wrote.
C10_Witness ==
  /\ ticks = 3
  /\ draws = 3
  /\ frame.drawn = 3
  /\ flowmap.tex[flowmap.read] = 3
  /\ flowmap.tex[flowmap.write] = 2

\* C11 (perpetual single frame loop): between handlers exactly one frame
\* callback is pending, also after a tick that an exception cut short, and
\* the ticks go on: every tick up to the bound explored is run.
C11_SingleLoop == [](raf = 1) /\ <>(ticks = MaxTicks)

\* A tick was cut short by an exception and a later tick ran to its end.
C11_Witness ==
  /\ frame.faults > 0
  /\ ticks >= 2
  /\ frame.log = <<"raf", "flag", "flowmap", "uTime", "draw">>
  /\ raf = 1

\* C12 (pointer handler frame): a run of updateMouse leaves the flowmap (flow
\* field, buffer roles, smoothed velocity), uTime, res, the renderer size, the
\* aspect, the image size, the number of draws, the pending frame callbacks
\* and the ticks unchanged.
C12_PointerOnly ==
  [][pointer.count' # pointer.count =>
       UNCHANGED <<flowmap, uTime, res, rendererSize, aspect, imageSize, draws,
                   raf, ticks, frame>>]_vars

\* A pointer event ran after a tick that had copied a pointer position and
\* written the flow field.
C12_Witness ==
  /\ pointer.since > 0
  /\ pointer.count = 2
  /\ ticks >= 1
  /\ draws = ticks
  /\ flowmap.mouse # Sentinel
  /\ flowmap.tex[flowmap.read] = ticks
  /\ velocity.needsUpdate

\* 0 <= q <= 1
InUnit(q) == ~RLess(q, Zero) /\ ~RLess(One, q)

\* C14 (position range): at every tick, with pointer events inside the window
\* and window resizes in any order, the position copied into the flowmap is
\* the sentinel (-1,-1) or has both coordinates in [0,1], its y being
\* 1 - pixel y / height.
C14_PositionRange ==
  ticks > 0 =>
    \/ flowmap.mouse = Sentinel
    \/ /\ InUnit(flowmap.mouse[1])
       /\ InUnit(flowmap.mouse[2])
       /\ pointer.since = 0 =>
            flowmap.mouse[2] = RSub(One, Rat(pointer.last.y, rendererSize[2]))

\* C15 (first sample): after the very first pointer event the velocity is
\* (0,0) whatever the event's coordinates, the last sample position and time
\* are the event's, the position is the event's and the moved flag is up.
C15_FirstSample ==
  (pointer.count = 1 /\ pointer.since > 0) =>
    /\ velocity = [x |-> Zero, y |-> Zero, needsUpdate |-> TRUE]
    /\ lastMouse = <<pointer.last.x, pointer.last.y>>
    /\ lastTime = pointer.last.t
    /\ mouse = Normalized(lastMouse, rendererSize)

\* The first pointer event, at pixel (5,5), came after a tick.
C15_Witness ==
  /\ pointer.count = 1
  /\ pointer.since > 0
  /\ ticks >= 1
  /\ pointer.last.x = 5 /\ pointer.last.y = 5
  /\ velocity.x = Zero /\ velocity.y = Zero
  /\ mouse # Sentinel

\* C16 (point-in-time consistency): the position and the velocity a tick
\* reads are both those the latest pointer event wrote, or both the idle
\* reset values.
C16_SameEvent ==
  (ticks > 0 /\ pointer.since = 0) =>
    IF frame.hadEvent
    THEN /\ flowmap.mouse =
              Normalized(<<pointer.last.x, pointer.last.y>>, rendererSize)
         /\ frame.raw = IF pointer.count = 1 THEN ZeroVec
                        ELSE <<Floored(DispX, Elapsed), Floored(DispY, Elapsed)>>
    ELSE flowmap.mouse = Sentinel /\ frame.raw = ZeroVec

\* Two pointer events at different pixels ran between two ticks.
C16_Witness ==
  /\ ticks >= 2
  /\ pointer.since = 0
  /\ frame.hadEvent
  /\ pointer.count = 2
  /\ pointer.prev.t > 0
  /\ DispX # 0
  /\ pointer.tick = ticks - 1

\* C13 (image load failure is local): when an image fails to load, the
\* texture keeps the image it had, no exception reaches the catch block of
\* switchTextures, and a frame callback stays pending.
C13_LoadFailureLocal ==
  [][slideshow'.failed # slideshow.failed =>
       /\ slideshow'.texture = slideshow.texture
       /\ slideshow'.alerts = slideshow.alerts
       /\ raf = 1 /\ raf' = 1]_vars

\* An image is shown, a later one failed to load, and a tick ran after that.
C13_Witness ==
  /\ slideshow.failed > 0
  /\ slideshow.texture > 0
  /\ \E i \in 1 .. Len(slideshow.images) :
       i > slideshow.texture /\ slideshow.images[i].status = "broken"
  /\ ticks > slideshow.failTick
  /\ draws = ticks

\* The struct of the example in assetURL's documentation.
DocStruct == [path |-> "tex", name |-> "img", suffix |-> "-q80", format |-> "jpg"]

\* C17 (documented URL): assetURL(n, {path: 'tex', name: 'img',
\* suffix: '-q80', format: 'jpg'}) is 'tex/img<n>-q80.jpg' for every index n
\* of the slideshow.
C17_DocumentedURL ==
  asset.struct = DocStruct =>
    asset.url = "tex/img" \o ToString(asset.inode) \o "-q80.jpg"

\* C18 (slideshow order): the k-th invocation of switchTextures, counted from
\* 0, selects image k mod 4 and requests its URL; the selected index is in
\* 0..3 and the click counter in 0..4.
C18_SlideshowOrder ==
  /\ slideshow.clicks \in 0 .. amount
  /\ slideshow.selected \in 0 .. amount - 1
  /\ slideshow.calls > 0 =>
       /\ slideshow.selected = (slideshow.calls - 1) % amount
       /\ slideshow.images[slideshow.calls].num = slideshow.selected
       /\ slideshow.images[slideshow.calls].src \in
            {"", texturesArray[slideshow.selected + 1].url}

\* The fifth invocation has selected the first image again.
C18_Witness ==
  /\ slideshow.calls = amount + 1
  /\ slideshow.selected = 0
  /\ slideshow.clicks = 1
  /\ slideshow.images[slideshow.calls].src = texturesArray[1].url
  /\ slideshow.images[amount].num = amount - 1

\* C19 (image change recomputes the geometry): every time an image finishes
\* loading, the image load handler runs resize().
C19_ResizeOnLoad == slideshow.resizes = slideshow.loaded

\* C20 (click listener never lost): once the promise jobs of a switchTextures
\* call have run, the click listener is registered exactly once, and no
\* click finds it detached.
C20_ClickListener ==
  /\ slideshow.jobs = <<>> => slideshow.listeners = 1
  /\ slideshow.dropped = 0

\* The listener was detached at the end of the queue and a click after that
\* was served.
C20_Witness ==
  /\ slideshow.removals > 0
  /\ slideshow.calls > amount
  /\ slideshow.jobs = <<>>
  /\ slideshow.listeners = 1

\* Every image requested so far has finished loading and no promise job is
\* left.
AllLoaded ==
  /\ slideshow.calls > 0
  /\ slideshow.jobs = <<>>
  /\ \A i \in 1 .. Len(slideshow.images) : slideshow.images[i].status = "loaded"

\* C21 (display follows the latest selection): once every requested image has
\* loaded, in whatever order, the texture holds the image selected last.
C21_LatestShown ==
  AllLoaded =>
    /\ slideshow.texture > 0
    /\ slideshow.images[slideshow.texture].num = slideshow.selected

\* C23 (no unhandled rejection): the then / finally chain that switchTextures
\* builds on isEndOfQueue leaves no rejected promise without a handler,
\* whether the selected index is the last one or not.
C23_RejectionsHandled == slideshow.jobs = <<>> => slideshow.unhandled = 0

\* 0 < q <= 1
InCover(q) == RLess(Zero, q) /\ ~RLess(One, q)

\* C24 (cover-fit bounds): after resize(), for positive window and image
\* sizes, a1 and a2 are both in (0,1] and at least one of them is 1.
C24_CoverBounds ==
  rendererSize = <<vw, vh>> =>
    /\ InCover(res[3])
    /\ InCover(res[4])
    /\ res[3] = One \/ res[4] = One

\* resize() has run for a window taller in proportion than the image:
\* a1 < 1 and a2 = 1.
C24_Witness ==
  /\ rendererSize = <<vw, vh>>
  /\ vh * imageSize[1] > imageSize[2] * vw
  /\ RLess(res[3], One)
  /\ RLess(Zero, res[3])
  /\ res[4] = One

\* C22 (several pointer events between two ticks): a tick that follows two
\* or more pointer events reads the position of the last one and the velocity
\* of the last one, which is the last displacement over the last floored
\* elapsed time; the events before it leave nothing in what the tick reads.
C22_LastEventWins ==
  (ticks > 0 /\ pointer.since = 0 /\ frame.events >= 2) =>
    /\ flowmap.mouse =
         Normalized(<<pointer.last.x, pointer.last.y>>, rendererSize)
    /\ frame.raw = <<Floored(DispX, Elapsed), Floored(DispY, Elapsed)>>

\* Three events between two ticks: the second moved the pointer along x, the
\* third did not, and the tick read the x velocity 0.
C22_Witness ==
  /\ ticks > 0
  /\ pointer.since = 0
  /\ frame.events = 3
  /\ pointer.prior.t > 0
  /\ pointer.prev.x # pointer.prior.x
  /\ DispX = 0
  /\ DispY # 0
  /\ frame.raw[1] = Zero
  /\ frame.raw[2] # Zero

====
